---- MODULE Spec2Model ----
(***************************************************************************)
(* Ride chat of ShareCO2: insertMessage, getMessagesByRide,                *)
(* validateCredentials and getRideParticipants over the Ride, Booking,     *)
(* ChatMessage and User tables of the store.  Every awaited store access   *)
(* is one step, so updates made by the rest of the application (a ride or  *)
(* a booking being cancelled, a ride being deleted) interleave with them.  *)
(***************************************************************************)
EXTENDS Naturals, Sequences, FiniteSets

VARIABLES rides, bookings, msgs, pc, call, ride, rideSel, err, ret, inserted

vars == <<rides, bookings, msgs, pc, call, ride, rideSel, err, ret, inserted>>

\* ---------------------------------------------------------------- bounds
MaxBookings == 2
MaxMsgs == 2
MaxAuthMsgs == 1

\* ------------------------------------------------------- the store's rows
RideIds == {"r1", "r2"}
UserIds == {"u1", "u2"}
Contents == {"hi"}

RideStatus == {"Confirmed", "Cancelled"}
BookingStatus == {"Confirmed", "CancelledDriver", "CancelledUser"}

Null == "null"

\* User rows: name is optional.
UserTable ==
  { [id |-> "u1", name |-> Null, email |-> "u1@x"],
    [id |-> "u2", name |-> "Bina", email |-> "u2@x"] }

UserRow(uid) == CHOOSE u \in UserTable : u.id = uid

\* The public profile selected by { id: true, name: true, email: true }.
Profile(uid) == UserRow(uid)

\* One driver per ride: u1 (no name) drives r1, u2 (named) drives r2.
DriverOf == [r \in RideIds |-> IF r = "r1" THEN "u1" ELSE "u2"]

RideRows == { [id |-> r, driverId |-> DriverOf[r], status |-> s] :
                r \in RideIds, s \in RideStatus }

\* The Ride tables with at most one row per id over the ids in ids.
RideTables(ids) ==
  { R \in SUBSET {x \in RideRows : x.id \in ids} : \A x, y \in R : x.id = y.id => x = y }

BookingRows == [rideId : RideIds, userId : UserIds, status : BookingStatus]

SeqsUpTo(S, n) == UNION { [1..k -> S] : k \in 0..n }

\* ------------------------------------------------------------ the errors
ErrNotFound == "Ride not found"
ErrRideCancelled == "Ride is cancelled. Chat closed."
ErrBookingCancelled == "Ride booking is cancelled. chat closed."
ErrUnauthorized == "Unauthorized sender"
ErrGeneric == "Something went wrong. Please try again letter."
ErrStore == "store error"
NoErr == "none"

\* The spec's error taxonomy.
ChatClosed == {ErrRideCancelled, ErrBookingCancelled}

\* ------------------------------------------------------ store operations
\* JavaScript truthiness of an optional string.
Truthy(s) == s \notin {Null, ""}

\* a || b
OrElse(a, b) == IF Truthy(a) THEN a ELSE b

RECURSIVE SelectSeq2(_, _, _)
\* The elements of seq whose rideId is r (and, unless u = Null, whose userId is u), in order.
SelectSeq2(seq, r, u) ==
  IF seq = <<>> THEN <<>>
  ELSE LET h == Head(seq)
           t == SelectSeq2(Tail(seq), r, u)
       IN IF h.rideId = r /\ (u = Null \/ h.userId = u) THEN <<h>> \o t ELSE t

\* prisma.ride.findUnique({ where: {id}, include: { bookings: { where: {userId} } } })
\* The result is a set: empty for null, else the one row.
RideWithBookingsOf(rideId, userId) ==
  { [id |-> x.id, driverId |-> x.driverId, status |-> x.status,
     bookings |-> SelectSeq2(bookings, rideId, userId)] :
       x \in {y \in rides : y.id = rideId} }

\* prisma.ride.findUnique({ where: {id}, select: { driverId: true } })
RideDriverId(rideId) == { x.driverId : x \in {y \in rides : y.id = rideId} }

RECURSIVE SortByCreatedAt(_)
\* orderBy: { createdAt: "asc" }
SortByCreatedAt(S) ==
  IF S = {} THEN <<>>
  ELSE LET m == CHOOSE x \in S : \A y \in S : x.createdAt <= y.createdAt
       IN <<m>> \o SortByCreatedAt(S \ {m})

RECURSIVE SortByCreatedAtDesc(_)
\* orderBy: { createdAt: "desc" }
SortByCreatedAtDesc(S) ==
  IF S = {} THEN <<>>
  ELSE LET m == CHOOSE x \in S : \A y \in S : x.createdAt >= y.createdAt
       IN <<m>> \o SortByCreatedAtDesc(S \ {m})

\* The message query ordered newest first.
MessagesOfRide_NewestFirst(rideId) == SortByCreatedAtDesc({m \in msgs : m.rideId = rideId})

\* prisma.chatMessage.findMany({ where: {rideId}, include: {user}, orderBy })
MessagesOfRide(rideId) == SortByCreatedAt({m \in msgs : m.rideId = rideId})

\* The created row with the content left out of data.
NewMessage_NoContent(rideId, senderId, content) ==
  [id |-> Cardinality(msgs) + 1, rideId |-> rideId, userId |-> senderId,
   content |-> Null, createdAt |-> Cardinality(msgs) + 1]

\* The row prisma.chatMessage.create makes: id and createdAt are assigned by the
\* store, each greater than those of the rows created before.
NewMessage(rideId, senderId, content) ==
  [id |-> Cardinality(msgs) + 1, rideId |-> rideId, userId |-> senderId,
   content |-> content, createdAt |-> Cardinality(msgs) + 1]

\* ---------------------------------------------------- validateCredentials
FirstBookingCancelled(rd) ==
  rd.bookings[1].status = "CancelledDriver" \/ rd.bookings[1].status = "CancelledUser"

SenderIsDriver(rd, userId) == rd.driverId = userId

\* validateCredentials with the sender authenticated before the ride's status is read.
ValidateCredentials_AuthFirst(found, userId) ==
  IF found = {} THEN ErrNotFound
  ELSE LET rd == CHOOSE x \in found : TRUE IN
    IF SenderIsDriver(rd, userId) THEN
      IF rd.status = "Cancelled" THEN ErrRideCancelled ELSE NoErr
    ELSE IF Len(rd.bookings) > 0
         THEN IF FirstBookingCancelled(rd) THEN ErrBookingCancelled
              ELSE IF rd.status = "Cancelled" THEN ErrRideCancelled ELSE NoErr
    ELSE ErrUnauthorized

\* validateCredentials without the final senderIsAuthenticated test.
ValidateCredentials_NoAuthTest(found, userId) ==
  IF found = {} THEN ErrNotFound
  ELSE LET rd == CHOOSE x \in found : TRUE IN
    IF rd.status = "Cancelled" THEN ErrRideCancelled
    ELSE IF SenderIsDriver(rd, userId) THEN NoErr
    ELSE IF Len(rd.bookings) > 0 /\ FirstBookingCancelled(rd) THEN ErrBookingCancelled
    ELSE NoErr

\* validateCredentials with the booking test made for the driver too.
ValidateCredentials_BookingTestForAll(found, userId) ==
  IF found = {} THEN ErrNotFound
  ELSE LET rd == CHOOSE x \in found : TRUE IN
    IF rd.status = "Cancelled" THEN ErrRideCancelled
    ELSE IF Len(rd.bookings) > 0
         THEN IF FirstBookingCancelled(rd) THEN ErrBookingCancelled ELSE NoErr
    ELSE IF SenderIsDriver(rd, userId) THEN NoErr
    ELSE ErrUnauthorized

\* validateCredentials with a missing ride reported as an unauthorized sender.
ValidateCredentials_NullUnauthorized(found, userId) ==
  IF found = {} THEN ErrUnauthorized
  ELSE LET rd == CHOOSE x \in found : TRUE IN
    IF rd.status = "Cancelled" THEN ErrRideCancelled
    ELSE IF SenderIsDriver(rd, userId) THEN NoErr
    ELSE IF Len(rd.bookings) > 0
         THEN IF FirstBookingCancelled(rd) THEN ErrBookingCancelled ELSE NoErr
    ELSE ErrUnauthorized

\* The outcome of validateCredentials once the lookup answered with found (a set).
ValidateCredentials(found, userId) ==
  IF found = {} THEN ErrNotFound
  ELSE LET rd == CHOOSE x \in found : TRUE IN
    IF rd.status = "Cancelled" THEN ErrRideCancelled
    ELSE IF SenderIsDriver(rd, userId) THEN NoErr
    ELSE IF Len(rd.bookings) > 0
         THEN IF FirstBookingCancelled(rd) THEN ErrBookingCancelled ELSE NoErr
    ELSE ErrUnauthorized

\* ------------------------------------------------------------------ Init
NoCall == [op |-> "none", rideId |-> Null, userId |-> Null, content |-> Null]

Idle == pc \in {"idle", "done"}

InitLocals ==
  /\ msgs = {}
  /\ pc = "idle"
  /\ call = NoCall
  /\ ride = {}
  /\ rideSel = {}
  /\ err = NoErr
  /\ ret = <<>>
  /\ inserted = <<>>

\* The chat of two confirmed rides, each with its driver and one confirmed rider.
Init ==
  /\ rides = {x \in RideRows : x.status = "Confirmed"}
  /\ bookings = << [rideId |-> "r1", userId |-> "u2", status |-> "Confirmed"],
                   [rideId |-> "r2", userId |-> "u1", status |-> "Confirmed"] >>
  /\ InitLocals

\* Ride r1 in any state, with any bookings on it in any store order.
InitAuth ==
  /\ rides \in RideTables({"r1"})
  /\ bookings \in SeqsUpTo({b \in BookingRows : b.rideId = "r1"}, MaxBookings)
  /\ InitLocals

\* Any rides with any bookings in any store order.
InitParticipants ==
  /\ rides \in RideTables(RideIds)
  /\ bookings \in SeqsUpTo(BookingRows, MaxBookings)
  /\ InitLocals

\* ------------------------------------------------------------- insertMessage
\* Lines 17 and 83-141: the call and its credential check (one store read).
\* maxRows caps the ChatMessage table: no call is made once it holds maxRows rows.
InsertValidate(rideId, senderId, content, storeOk, maxRows) ==
  /\ Idle
  /\ Cardinality(msgs) < maxRows
  /\ call' = [op |-> "insertMessage", rideId |-> rideId, userId |-> senderId,
              content |-> content]
  /\ rideSel' = {}
  /\ ret' = <<>>
  /\ IF ~storeOk
     THEN /\ ride' = {}
          /\ err' = ErrGeneric
          /\ pc' = "done"
     ELSE /\ ride' = RideWithBookingsOf(rideId, senderId)
          /\ err' = ValidateCredentials(ride', senderId)
          /\ pc' = IF err' = NoErr THEN "create" ELSE "done"
  /\ UNCHANGED <<rides, bookings, msgs, inserted>>

\* Lines 20-33: prisma.chatMessage.create, then the return or the re-throw.
\* The store may refuse the row (storeOk false), whatever the reason.
InsertCreate(storeOk) ==
  /\ pc = "create"
  /\ IF storeOk
     THEN LET m == NewMessage(call.rideId, call.userId, call.content)
          IN /\ msgs' = msgs \cup {m}
             /\ ret' = <<m>>
             /\ inserted' = <<m>>
             /\ err' = NoErr
     ELSE /\ msgs' = msgs
          /\ ret' = <<>>
          /\ inserted' = inserted
          /\ err' = ErrStore
  /\ pc' = "done"
  /\ UNCHANGED <<rides, bookings, call, ride, rideSel>>

\* ---------------------------------------------------------- getMessagesByRide
\* Line 45: the call and its credential check.
GetValidate(rideId, userId, storeOk) ==
  /\ Idle
  /\ call' = [op |-> "getMessagesByRide", rideId |-> rideId, userId |-> userId,
              content |-> Null]
  /\ rideSel' = {}
  /\ ret' = <<>>
  /\ IF ~storeOk
     THEN /\ ride' = {}
          /\ err' = ErrGeneric
          /\ pc' = "done"
     ELSE /\ ride' = RideWithBookingsOf(rideId, userId)
          /\ err' = ValidateCredentials(ride', userId)
          /\ pc' = IF err' = NoErr THEN "fetchRide" ELSE "done"
  /\ UNCHANGED <<rides, bookings, msgs, inserted>>

\* Lines 48-55: the second ride lookup, for the driverId.
GetFetchRide(storeOk) ==
  /\ pc = "fetchRide"
  /\ IF ~storeOk
     THEN /\ rideSel' = {}
          /\ err' = ErrStore
          /\ pc' = "done"
     ELSE /\ rideSel' = RideDriverId(call.rideId)
          /\ err' = IF rideSel' = {} THEN ErrNotFound ELSE NoErr
          /\ pc' = IF rideSel' = {} THEN "done" ELSE "fetchMessages"
  /\ UNCHANGED <<rides, bookings, msgs, call, ride, ret, inserted>>

\* isDriver computed against the requesting user instead of the ride's driver.
WithRole_CallerAsDriver(m, driverId) ==
  [id |-> m.id, rideId |-> m.rideId, userId |-> m.userId, content |-> m.content,
   createdAt |-> m.createdAt,
   user |-> [id |-> Profile(m.userId).id, name |-> Profile(m.userId).name,
             email |-> Profile(m.userId).email,
             isDriver |-> (Profile(m.userId).id = call.userId)]]

\* Lines 69-75: message.user gets isDriver.
WithRole(m, driverId) ==
  [id |-> m.id, rideId |-> m.rideId, userId |-> m.userId, content |-> m.content,
   createdAt |-> m.createdAt,
   user |-> [id |-> Profile(m.userId).id, name |-> Profile(m.userId).name,
             email |-> Profile(m.userId).email,
             isDriver |-> (Profile(m.userId).id = driverId)]]

\* messages.map(...)
MessagesWithRole(messages, driverId) ==
  [i \in 1..Len(messages) |-> WithRole(messages[i], driverId)]

\* Lines 58-77: the message query, the mapping and the return.
GetFetchMessages(storeOk) ==
  /\ pc = "fetchMessages"
  /\ IF ~storeOk
     THEN /\ ret' = <<>>
          /\ err' = ErrStore
     ELSE /\ ret' = MessagesWithRole(MessagesOfRide(call.rideId),
                                     CHOOSE d \in rideSel : TRUE)
          /\ err' = NoErr
  /\ pc' = "done"
  /\ UNCHANGED <<rides, bookings, msgs, call, ride, rideSel, inserted>>

\* -------------------------------------------------------- getRideParticipants
\* Lines 179-184.
DriverParticipant(rd) ==
  [id |-> Profile(rd.driverId).id,
   name |-> OrElse(Profile(rd.driverId).name, "Champion"),
   email |-> Profile(rd.driverId).email,
   isDriver |-> TRUE]

\* Lines 187-192.
PassengerParticipant(booking) ==
  [id |-> Profile(booking.userId).id,
   name |-> OrElse(Profile(booking.userId).name, "Rider"),
   email |-> Profile(booking.userId).email,
   isDriver |-> FALSE]

RECURSIVE ActiveOnly(_)
ActiveOnly(seq) ==
  IF seq = <<>> THEN <<>>
  ELSE IF Head(seq).status = "Confirmed" THEN <<Head(seq)>> \o ActiveOnly(Tail(seq))
  ELSE ActiveOnly(Tail(seq))

\* The participants with cancelled bookings filtered out.
Participants_ActiveOnly(rd) ==
  LET bs == ActiveOnly(SelectSeq2(bookings, rd.id, Null))
  IN <<DriverParticipant(rd)>> \o [i \in 1..Len(bs) |-> PassengerParticipant(bs[i])]

\* Lines 179-195: [driverParticipant, ...passengerParticipants] of a found ride.
Participants(rd) ==
  LET bs == SelectSeq2(bookings, rd.id, Null)
  IN <<DriverParticipant(rd)>> \o [i \in 1..Len(bs) |-> PassengerParticipant(bs[i])]

\* Lines 146-203: one store read, then the list.
GetRideParticipants(rideId, storeOk) ==
  /\ Idle
  /\ call' = [op |-> "getRideParticipants", rideId |-> rideId, userId |-> Null,
              content |-> Null]
  /\ ride' = {}
  /\ rideSel' = {}
  /\ LET found == {x \in rides : x.id = rideId}
     IN IF ~storeOk
        THEN /\ err' = ErrStore
             /\ ret' = <<>>
        ELSE IF found = {}
        THEN /\ err' = ErrNotFound
             /\ ret' = <<>>
        ELSE /\ err' = NoErr
             /\ ret' = Participants(CHOOSE x \in found : TRUE)
  /\ pc' = "done"
  /\ UNCHANGED <<rides, bookings, msgs, inserted>>

\* ------------------------------------------- the rest of the application
\* A ride is cancelled.
CancelRide(rideId) ==
  /\ \E x \in rides : x.id = rideId /\ x.status # "Cancelled"
  /\ rides' = { IF x.id = rideId THEN [x EXCEPT !.status = "Cancelled"] ELSE x : x \in rides }
  /\ UNCHANGED <<bookings, msgs, pc, call, ride, rideSel, err, ret, inserted>>

\* A booking is cancelled, by its rider or by the driver.
CancelBooking(i, status) ==
  /\ i \in 1..Len(bookings)
  /\ bookings[i].status = "Confirmed"
  /\ bookings' = [bookings EXCEPT ![i].status = status]
  /\ UNCHANGED <<rides, msgs, pc, call, ride, rideSel, err, ret, inserted>>

\* A ride row is deleted.  The rows that refer to it stay: what becomes of them is
\* the store's referential action, which none of this code sets or relies on.
DeleteRide(rideId) ==
  /\ \E x \in rides : x.id = rideId
  /\ rides' = {x \in rides : x.id # rideId}
  /\ UNCHANGED <<bookings, msgs, pc, call, ride, rideSel, err, ret, inserted>>

Environment ==
  \/ \E r \in RideIds : CancelRide(r)
  \/ \E i \in 1..MaxBookings, s \in {"CancelledDriver", "CancelledUser"} : CancelBooking(i, s)
  \/ \E r \in RideIds : DeleteRide(r)

\* ------------------------------------------------------ the specifications
InsertMessage(maxRows) ==
  \/ \E r \in RideIds, u \in UserIds, c \in Contents, ok \in BOOLEAN :
       InsertValidate(r, u, c, ok, maxRows)
  \/ \E ok \in BOOLEAN : InsertCreate(ok)

GetMessagesByRide ==
  \/ \E r \in RideIds, u \in UserIds, ok \in BOOLEAN : GetValidate(r, u, ok)
  \/ \E ok \in BOOLEAN : GetFetchRide(ok)
  \/ \E ok \in BOOLEAN : GetFetchMessages(ok)

Next ==
  \/ InsertMessage(MaxMsgs)
  \/ GetMessagesByRide
  \/ \E r \in RideIds, ok \in BOOLEAN : GetRideParticipants(r, ok)
  \/ Environment

Spec == Init /\ [][Next]_vars

NextAuth ==
  \/ InsertMessage(MaxAuthMsgs)
  \/ GetMessagesByRide
  \/ Environment

SpecAuth == InitAuth /\ [][NextAuth]_vars

NextParticipants ==
  \/ \E r \in RideIds, ok \in BOOLEAN : GetRideParticipants(r, ok)
  \/ Environment

SpecParticipants == InitParticipants /\ [][NextParticipants]_vars

\* ================================================================ properties
ChatOps == {"insertMessage", "getMessagesByRide"}

\* A step that is the call of operation op on ride r: it starts from rest and
\* leaves the store as it is.
Starts(op, r) ==
  /\ Idle
  /\ rides' = rides /\ bookings' = bookings
  /\ call'.op = op /\ call'.rideId = r

\* The ride row the credential check of the current call read.
Checked == CHOOSE x \in ride : TRUE

\* The current call is a chat call whose credential check read a ride row.
CheckedRide == call.op \in ChatOps /\ ride # {}

CancelledBooking(b) == b.status \in {"CancelledDriver", "CancelledUser"}

\* C1: when the ride of an insertMessage or getMessagesByRide call exists with
\* status "Cancelled" and the store answers the lookup, the call fails at once
\* with the ride-cancelled ChatClosed error, whoever calls, and creates no row.
C1_CancelledRideClosesChat ==
  [][\A op \in ChatOps, r \in RideIds :
       ( /\ Starts(op, r)
         /\ \E x \in rides : x.id = r /\ x.status = "Cancelled"
         /\ ride' # {} )
       => ( /\ pc' = "done"
            /\ err' = ErrRideCancelled
            /\ err' \in ChatClosed
            /\ ret' = <<>>
            /\ msgs' = msgs )]_vars

\* A rider with an active booking was refused on a cancelled ride.
C1_Witness ==
  /\ pc = "done" /\ call.op = "insertMessage" /\ ride # {}
  /\ Checked.status = "Cancelled"
  /\ Checked.driverId # call.userId
  /\ Len(Checked.bookings) > 0 /\ Checked.bookings[1].status = "Confirmed"
  /\ err = ErrRideCancelled
  /\ msgs = {}

\* C2 as stated: a caller who is neither the driver of the ride nor the holder of
\* a booking on it fails with Unauthorized.
C2_Original ==
  ( /\ CheckedRide
    /\ Checked.driverId # call.userId
    /\ Checked.bookings = <<>> )
  => (pc = "done" /\ err = ErrUnauthorized)

\* C2 amended: on a ride that exists and is not cancelled, a caller who is neither
\* the driver nor the holder of a booking on the ride fails with Unauthorized.
C2_UnrelatedUserUnauthorized ==
  ( /\ CheckedRide
    /\ Checked.status # "Cancelled"
    /\ Checked.driverId # call.userId
    /\ \A i \in DOMAIN bookings :
         ~(bookings[i].rideId = call.rideId /\ bookings[i].userId = call.userId) )
  => (pc = "done" /\ err = ErrUnauthorized /\ ret = <<>>)

\* An unrelated user was refused on a confirmed ride that has another rider.
C2_Witness ==
  /\ pc = "done" /\ call.op = "getMessagesByRide" /\ ride # {}
  /\ Checked.status = "Confirmed"
  /\ Checked.driverId # call.userId
  /\ Checked.bookings = <<>>
  /\ Len(bookings) > 0
  /\ err = ErrUnauthorized

\* C3: on a ride that is not cancelled, a caller who is not the driver and holds a
\* booking on the ride with status "CancelledDriver" or "CancelledUser", alone or
\* among several bookings, fails with ChatClosed.
C3_CancelledBookingClosesChat ==
  ( /\ CheckedRide
    /\ Checked.status # "Cancelled"
    /\ Checked.driverId # call.userId
    /\ \E i \in DOMAIN Checked.bookings : CancelledBooking(Checked.bookings[i]) )
  => (pc = "done" /\ err \in ChatClosed)

\* C9: on a ride that is not cancelled the driver passes the credential check,
\* whatever bookings the driver holds on the ride: the call goes on to its next
\* store access, and it ends in failure only if that later access fails or finds
\* the ride gone.
C9_DriverPasses ==
  ( /\ CheckedRide
    /\ Checked.status # "Cancelled"
    /\ Checked.driverId = call.userId )
  => \/ pc \in {"create", "fetchRide", "fetchMessages"} /\ err = NoErr
     \/ pc = "done" /\ err = NoErr /\ call.op = "insertMessage" /\ Len(ret) = 1
     \/ pc = "done" /\ err = NoErr /\ call.op = "getMessagesByRide"
     \/ pc = "done" /\ err = ErrStore
     \/ /\ pc = "done" /\ err = ErrNotFound /\ call.op = "getMessagesByRide"
        /\ \A x \in rides : x.id # call.rideId

\* The driver, holding a cancelled booking on the ride, has inserted a message.
C9_Witness ==
  /\ pc = "done" /\ call.op = "insertMessage" /\ ride # {}
  /\ Checked.driverId = call.userId
  /\ Len(Checked.bookings) > 0 /\ CancelledBooking(Checked.bookings[1])
  /\ err = NoErr
  /\ Len(ret) = 1 /\ ret[1] \in msgs

\* The stored row of a returned message.
Row(x) ==
  [id |-> x.id, rideId |-> x.rideId, userId |-> x.userId, content |-> x.content,
   createdAt |-> x.createdAt]

\* The step in which an insertMessage call returns the row it created.
InsertReturns == pc = "create" /\ pc' = "done" /\ err' = NoErr

\* A step of one of the three operations (the others are the application's updates).
OperationStep == <<pc, call, ride, rideSel, err, ret, inserted>>' #
                 <<pc, call, ride, rideSel, err, ret, inserted>>

\* C4: the rows of the store change only in the step in which an insertMessage
\* call succeeds, which adds exactly one ChatMessage row carrying the call's
\* rideId, senderId and content and returns it; a failing insertMessage step
\* creates no row and ends the call with its error, and no step of
\* getMessagesByRide or getRideParticipants changes any row.
C4_OnlyInsertWrites ==
  [][ /\ OperationStep => (rides' = rides /\ bookings' = bookings)
      /\ IF InsertReturns
         THEN /\ call.op = "insertMessage"
              /\ ride # {} /\ ValidateCredentials(ride, call.userId) = NoErr
              /\ \E m \in msgs' \ msgs :
                   /\ msgs' = msgs \cup {m}
                   /\ m.rideId = call.rideId
                   /\ m.userId = call.userId
                   /\ m.content = call.content
                   /\ ret' = <<m>>
         ELSE /\ msgs' = msgs
              /\ (call'.op = "insertMessage" /\ pc' = "done" /\ OperationStep)
                   => (err' # NoErr /\ ret' = <<>>) ]_vars

\* An insertMessage has returned its row, after an earlier one that failed.
C4_Witness ==
  /\ pc = "done" /\ call.op = "insertMessage" /\ err = NoErr
  /\ Len(ret) = 1 /\ ret[1] \in msgs
  /\ ret[1].content = "hi" /\ ret[1].userId = call.userId /\ ret[1].rideId = call.rideId
  /\ Cardinality(msgs) = 2

\* C5: a successful getMessagesByRide returns exactly the ChatMessage rows of its
\* ride, each once, in non-decreasing createdAt order, and user.isDriver of each is
\* true exactly when the message's sender is the ride's driver.
C5_MessagesOfTheRideInOrder ==
  (pc = "done" /\ call.op = "getMessagesByRide" /\ err = NoErr)
  => /\ { Row(ret[i]) : i \in DOMAIN ret } = { m \in msgs : m.rideId = call.rideId }
     /\ Len(ret) = Cardinality({ m \in msgs : m.rideId = call.rideId })
     /\ \A i, j \in DOMAIN ret : i < j => ret[i].createdAt <= ret[j].createdAt
     /\ \A i \in DOMAIN ret :
          /\ ret[i].user.id = ret[i].userId
          /\ ret[i].user.isDriver <=> (ret[i].userId = Checked.driverId)

\* Two messages of the ride came back, one of the driver and one of a rider.
C5_Witness ==
  /\ pc = "done" /\ call.op = "getMessagesByRide" /\ err = NoErr
  /\ Len(ret) = 2
  /\ ret[1].user.isDriver # ret[2].user.isDriver

\* C6: when getMessagesByRide succeeds for the ride of the most recent successful
\* insertMessage, the row that insert returned is in the list, as its last element.
C6_InsertedMessageIsLast ==
  ( /\ pc = "done" /\ call.op = "getMessagesByRide" /\ err = NoErr
    /\ inserted # <<>> /\ inserted[1].rideId = call.rideId )
  => (Len(ret) > 0 /\ Row(ret[Len(ret)]) = inserted[1])

\* The list ends with the inserted message and holds an older one before it.
C6_Witness ==
  /\ pc = "done" /\ call.op = "getMessagesByRide" /\ err = NoErr
  /\ inserted # <<>> /\ inserted[1].rideId = call.rideId
  /\ Len(ret) = 2 /\ Row(ret[2]) = inserted[1]

\* The j-th booking row of ride r in the store's order.
NthBookingOf(r, n) ==
  bookings[CHOOSE j \in DOMAIN bookings :
             /\ bookings[j].rideId = r
             /\ Cardinality({k \in 1..j : bookings[k].rideId = r}) = n]

DisplayName(uid, placeholder) ==
  IF UserRow(uid).name = Null THEN placeholder ELSE UserRow(uid).name

\* C7: for a ride that exists, whatever its status, getRideParticipants returns
\* 1 + (number of bookings on the ride) entries: first the driver, isDriver true,
\* then one entry, isDriver false, per booking of the ride in the store's order,
\* whatever the booking's status; a missing name becomes "Champion" for the
\* driver and "Rider" for a rider.
C7_ParticipantsList ==
  [][\A r \in RideIds : \A x \in rides :
       (x.id = r /\ GetRideParticipants(r, TRUE))
       => LET n == Cardinality({j \in DOMAIN bookings : bookings[j].rideId = r})
          IN /\ err' = NoErr
             /\ Len(ret') = 1 + n
             /\ ret'[1] = [id |-> x.driverId, name |-> DisplayName(x.driverId, "Champion"),
                           email |-> UserRow(x.driverId).email, isDriver |-> TRUE]
             /\ \A i \in 1..n :
                  ret'[i + 1] = [id |-> NthBookingOf(r, i).userId,
                                 name |-> DisplayName(NthBookingOf(r, i).userId, "Rider"),
                                 email |-> UserRow(NthBookingOf(r, i).userId).email,
                                 isDriver |-> FALSE] ]_vars

\* The list of a cancelled ride with two bookings, one of them cancelled, came
\* back with both placeholders in it.
C7_Witness ==
  /\ pc = "done" /\ call.op = "getRideParticipants" /\ err = NoErr
  /\ \E x \in rides : x.id = call.rideId /\ x.status = "Cancelled"
  /\ Len(ret) = 3
  /\ ret[1].name = "Champion" /\ ret[1].isDriver
  /\ \E i \in 2..3 : ret[i].name = "Rider" /\ ~ret[i].isDriver
  /\ \E j \in DOMAIN bookings : bookings[j].rideId = call.rideId /\ CancelledBooking(bookings[j])

\* C8: a call of insertMessage, getMessagesByRide or getRideParticipants for a
\* ride id with no Ride row fails at once with NotFound when the store answers
\* the lookup, whoever calls and whatever bookings the caller holds, and creates
\* no row.
C8_MissingRideNotFound ==
  [][\A r \in RideIds :
       ( /\ \A x \in rides : x.id # r
         /\ \/ \E u \in UserIds, c \in Contents : InsertValidate(r, u, c, TRUE, MaxMsgs)
            \/ \E u \in UserIds : GetValidate(r, u, TRUE)
            \/ GetRideParticipants(r, TRUE) )
       => (pc' = "done" /\ err' = ErrNotFound /\ ret' = <<>> /\ msgs' = msgs)]_vars

\* A caller whose booking on the deleted ride is cancelled got NotFound.
C8_Witness ==
  /\ pc = "done" /\ call.op = "insertMessage" /\ err = ErrNotFound
  /\ \A x \in rides : x.id # call.rideId
  /\ \E j \in DOMAIN bookings :
       /\ bookings[j].rideId = call.rideId /\ bookings[j].userId = call.userId
       /\ CancelledBooking(bookings[j])

\* The chat of ride r is open for user u in the store as it is now.
ChatOpenFor(r, u) ==
  \E x \in rides :
    /\ x.id = r
    /\ x.status # "Cancelled"
    /\ \/ x.driverId = u
       \/ \E j \in DOMAIN bookings :
            /\ bookings[j].rideId = r /\ bookings[j].userId = u
            /\ ~CancelledBooking(bookings[j])

\* C10: every ChatMessage row is created at a moment when its ride exists and is
\* not cancelled and its sender is the driver or holds a booking on the ride that
\* is not cancelled.
C10_CreatedWhileChatOpen ==
  [][\A m \in msgs' \ msgs : ChatOpenFor(m.rideId, m.userId)]_vars
====
